---- MODULE Spec2Model ----
(***************************************************************************)
(* Model of the viewport-intersection animation engine of animate-on-view: *)
(*   - the shared observer pool          (src/src/utils/observerManager.ts)*)
(*   - the visibility classifier         (viewportUtils, src/unnamed/part_013)*)
(*   - the useIntersectionObserver hook  (src/src/hooks/useIntersectionObserver.ts)*)
(*   - the useScrollAnimation controller (src/src/types/index.ts:211-454)  *)
(*                                                                         *)
(* Intersection ratios and thresholds are fixed-point numbers in units of  *)
(* 0.05: the value 2 stands for 0.1, 6 for 0.3, 20 for 1.0.  Halving a     *)
(* threshold is exact in binary floating point, so `ratio > threshold*0.5` *)
(* is modelled as `2*ratio > threshold`.                                   *)
(***************************************************************************)
EXTENDS Integers, Sequences, FiniteSets, TLC

VARIABLES
  \* ---- observer pool (module-level state of observerManager.ts) ----
  observerInstances,   \* Map<string, IntersectionObserver>: key -> observer id
  elementCallbacks,    \* WeakMap<HTMLElement, callback>
  elementObservers,    \* WeakMap<HTMLElement, IntersectionObserver>
  ioObservers,         \* the platform's IntersectionObserver objects, by id
  rafQueue,            \* measurement batches whose processing optimizedRAF deferred
  invoked,             \* callback invocations made by the last step, per entry of
                       \* the batch it processed (empty if it processed none)
  poolError,           \* TRUE once a pool operation has thrown
  lastCall,            \* the call the last step made, when it moved a registered
                       \* element to another live observer, unobserved an
                       \* unregistered element while another one was registered,
                       \* or was the trigger/reset of the disabled mode
  \* ---- one component using useScrollAnimation (and, through it,
  \*      useIntersectionObserver) on element e1 ----
  normalizedConfig,    \* the canonical AnimationConfig (fixed for the component's life)
  reducedMotion,       \* shouldReduceMotion(): the user's media preference
  hasIO,               \* hasIntersectionObserver(): the platform capability
  disabled,            \* AnimateOnView's disabled prop (or its provider's); FALSE
                       \* where the hook is used without the component
  respectMotionPreferences,  \* the AnimationProvider's prop; TRUE (its default)
                       \* where there is no provider
  mounted,             \* the component is mounted
  isHydrated,          \* useEnhancedHydration state
  isVisible, isAnimating, hasAnimated,   \* useState of useScrollAnimation
  isIntersecting,      \* useState of useIntersectionObserver
  wasVisibleRef,       \* useRef of useIntersectionObserver
  animationTimeoutRef, \* useRef: "null", or the handle of the last completion timer
                       \* set: "pending", or "stale" once it has fired or been cleared
  elementRef,          \* useRef: TRUE while the ref holds the element
  rendered,            \* the state values captured by the closures of the last render
  orphanTimers,        \* pending completion timers whose handle the ref has lost
  timeoutDelay,        \* the delay (ms) the last completion timer was set with; 0
                       \* while none has been set
  animateFrames,       \* pending animation-frame callbacks that apply the animate style
  style,               \* element.style of e1
  isConnected,         \* element.isConnected
  onStartCount, onEndCount,   \* invocations of callbacks.onStart / callbacks.onEnd
  sinceReset,          \* reset() has run and no trigger has started since
  calledAfterUnmount,  \* a lifecycle callback was invoked after the unmount
  \* ---- visibility classifier (pure function, applied to drawn inputs) ----
  clsRatio, clsThreshold, clsWasVisible, clsResult,
  \* ---- configuration functions (pure, applied to drawn inputs) ----
  cfgInput,            \* the configuration object the caller passes
  cfgCall,             \* the function applied to it, the provider it ran under,
                       \* and what it returned or threw
  \* ---- the triggerOnce API: src/react/hooks/useIntersectionObserver and the
  \*      Svelte action intersectionObserver, on one element each ----
  triggerOnce,         \* the option both are given
  isInView, hasTriggered,   \* useState of the React hook
  returnedIsInView,    \* isInView as the hook's last render returned it
  inViewCallback,      \* the callback memoized by the last render: the value of
                       \* hasTriggered its closure captured
  inViewObserver,      \* the callback held by the connected IntersectionObserver,
                       \* likewise
  actionHasTriggered,  \* let hasTriggered of the Svelte action
  onIntersect,         \* the values the action has passed to onIntersect, in order
  \* ---- the two style computers (pure, applied to drawn arguments) ----
  styleArgs,           \* the type, direction and phase both are called with
  utilsStyles,         \* what createAnimationStyles (utils) returned, if called
  animationsStyles     \* what getAnimationStyles (animations) returned, if called

poolVars == <<observerInstances, elementCallbacks, elementObservers, ioObservers,
              rafQueue, invoked, poolError, lastCall>>
ctlVars  == <<normalizedConfig, reducedMotion, hasIO, disabled,
              respectMotionPreferences, mounted, isHydrated, isVisible,
              isAnimating, hasAnimated, isIntersecting, wasVisibleRef,
              animationTimeoutRef, elementRef, rendered, orphanTimers, timeoutDelay,
              animateFrames, style, isConnected, onStartCount, onEndCount, sinceReset, calledAfterUnmount>>
clsVars  == <<clsRatio, clsThreshold, clsWasVisible, clsResult>>
cfgVars  == <<cfgInput, cfgCall>>
onceVars == <<triggerOnce, isInView, hasTriggered, returnedIsInView, inViewCallback,
              inViewObserver, actionHasTriggered, onIntersect>>
styleVars == <<styleArgs, utilsStyles, animationsStyles>>
vars     == <<poolVars, ctlVars, clsVars, cfgVars, onceVars, styleVars>>

----------------------------------------------------------------------------
\* Bounds of the model

MaxObservers == 2     \* IntersectionObserver objects ever constructed
MaxQueued    == 2     \* measurement entries delivered and not yet processed
MaxTriggers  == 2     \* animations one component starts
MaxRatio     == 8     \* largest intersection ratio drawn (units of 0.05)
MaxThreshold == 7     \* largest threshold drawn for the classifier (units of 0.05)

Elements  == {"e1", "e2"}
Callbacks == {"cb1", "cb2"}            \* opaque callbacks of direct pool users
\* the hook's handleIntersection closure, named by the isIntersecting it captured
HookCallbacks == {"handleIntersection:false", "handleIntersection:true"}
NoCallback == "none"
NoObserver == 0
NoCall == [op |-> "none", element |-> "none", prior |-> NoObserver]

\* Options passed to observe().  root: "null" = the viewport, r1 and r2 = custom
\* root elements; rootMargin "" = not supplied.
opts(root, rootMargin, offset, threshold) ==
  [root |-> root, rootMargin |-> rootMargin, offset |-> offset, threshold |-> threshold]

WatchOptions ==
  { opts("null", "", 25, 0),  opts("r1", "", 0, 0),  opts("r2", "", 0, 0) }

Ratios == {1, 2, 7}    \* 0.05, 0.1 and 0.35

----------------------------------------------------------------------------
\* viewportUtils

\* createRootMargin: `${offset}px ${offset}px ${offset}px ${offset}px`
createRootMargin(offset) ==
  LET o == ToString(offset)
  IN  o \o "px " \o o \o "px " \o o \o "px " \o o \o "px"

shouldTriggerWithThreshold_noHysteresis(intersectionRatio, threshold, wasVisible) ==
  intersectionRatio > threshold

\* shouldTriggerWithThreshold: hysteresis, exit threshold is threshold * 0.5
shouldTriggerWithThreshold(intersectionRatio, threshold, wasVisible) ==
  IF wasVisible
    THEN 2 * intersectionRatio > threshold
    ELSE intersectionRatio > threshold

----------------------------------------------------------------------------
\* observerManager.ts

\* effective rootMargin: rootMargin || (offset > 0 ? createRootMargin(offset) : '0px')
effectiveRootMargin(options) ==
  IF options.rootMargin # "" THEN options.rootMargin
  ELSE IF options.offset > 0 THEN createRootMargin(options.offset)
  ELSE "0px"

\* createObserverKey: `${rootKey}-${effectiveRootMargin}-${thresholdKey}`
createObserverKey(options) ==
  LET rootKey      == IF options.root # "null" THEN "custom-root" ELSE "viewport"
      thresholdKey == ToString(options.threshold)
  IN  rootKey \o "-" \o effectiveRootMargin(options) \o "-" \o thresholdKey

\* The pool's state as one value, so that operations compose sequentially.
PoolState ==
  [observerInstances |-> observerInstances,
   elementCallbacks  |-> elementCallbacks,
   elementObservers  |-> elementObservers,
   ioObservers       |-> ioObservers,
   poolError         |-> poolError]

SetPool(p) ==
  /\ observerInstances' = p.observerInstances
  /\ elementCallbacks'  = p.elementCallbacks
  /\ elementObservers'  = p.elementObservers
  /\ ioObservers'       = p.ioObservers
  /\ poolError'         = p.poolError

nextObserverId(p) == Len(p.ioObservers) + 1

getOrCreateObserver_noReuse(p, options) ==
  LET key == createObserverKey(options)
      id  == nextObserverId(p)
      io  == [root       |-> options.root,
              rootMargin |-> effectiveRootMargin(options),
              threshold  |-> options.threshold,
              key        |-> key,
              observed   |-> {},
              connected  |-> TRUE]
  IN  [pool |-> [p EXCEPT !.ioObservers = Append(@, io),
                          !.observerInstances = (key :> id) @@ @],
       observer |-> id]

\* getOrCreateObserver: reuse the instance stored under the key, else construct one
getOrCreateObserver(p, options) ==
  LET key == createObserverKey(options)
  IN  IF key \in DOMAIN p.observerInstances
        THEN [pool |-> p, observer |-> p.observerInstances[key]]
        ELSE LET id == nextObserverId(p)
                 io == [root       |-> options.root,
                        rootMargin |-> effectiveRootMargin(options),
                        threshold  |-> options.threshold,
                        key        |-> key,
                        observed   |-> {},
                        connected  |-> TRUE]
             IN  [pool |-> [p EXCEPT !.ioObservers = Append(@, io),
                                     !.observerInstances = (key :> id) @@ @],
                  observer |-> id]

unobserve_keepsMapping(p, element) ==
  LET observer == p.elementObservers[element]
  IN  IF observer # NoObserver
        THEN [p EXCEPT !.ioObservers[observer].observed = @ \ {element},
                       !.elementCallbacks[element] = NoCallback]
        ELSE [p EXCEPT !.poolError = TRUE]

unobserve_keepsCallback(p, element) ==
  LET observer == p.elementObservers[element]
  IN  IF observer # NoObserver
        THEN [p EXCEPT !.ioObservers[observer].observed = @ \ {element},
                       !.elementObservers[element] = NoObserver]
        ELSE p

\* unobserve: no-op unless the element has an observer mapping
unobserve(p, element) ==
  LET observer == p.elementObservers[element]
  IN  IF observer # NoObserver
        THEN [p EXCEPT !.ioObservers[observer].observed = @ \ {element},
                       !.elementCallbacks[element] = NoCallback,
                       !.elementObservers[element] = NoObserver]
        ELSE p

\* IntersectionObserver.observe(): a disconnected observer can observe again
ioObserve(p, observer, element) ==
  [p EXCEPT !.ioObservers[observer].observed = @ \cup {element},
            !.ioObservers[observer].connected = TRUE]

observe_noUnobserve(p, element, callback, options) ==
  LET g  == getOrCreateObserver(p, options)
      p2 == [g.pool EXCEPT !.elementCallbacks[element] = callback,
                           !.elementObservers[element] = g.observer]
  IN  ioObserve(p2, g.observer, element)

\* observe: unobserve a prior registration, then register on the shared observer
observe(p, element, callback, options) ==
  LET p1 == IF p.elementObservers[element] # NoObserver
              THEN unobserve(p, element) ELSE p
      g  == getOrCreateObserver(p1, options)
      p2 == [g.pool EXCEPT !.elementCallbacks[element] = callback,
                           !.elementObservers[element] = g.observer]
  IN  ioObserve(p2, g.observer, element)

\* disconnect: disconnect every pooled observer, clear the instance map only
disconnect(p) ==
  [p EXCEPT !.ioObservers =
              [i \in DOMAIN p.ioObservers |->
                 IF \E k \in DOMAIN p.observerInstances : p.observerInstances[k] = i
                   THEN [p.ioObservers[i] EXCEPT !.observed = {}, !.connected = FALSE]
                   ELSE p.ioObservers[i]],
            !.observerInstances = <<>>]

entryCallbacks_broadcast(p, entry) ==
  { [callback |-> p.elementCallbacks[e], element |-> e, target |-> entry.target]
    : e \in {x \in Elements : p.elementCallbacks[x] # NoCallback} }

\* the deferred body of the observer callback, for one entry: the callback stored
\* for the entry's target, if any, is called with that entry alone
entryCallbacks(p, entry) ==
  LET elementCallback == p.elementCallbacks[entry.target]
  IN  IF elementCallback # NoCallback
        THEN { [callback |-> elementCallback, element |-> entry.target,
                target |-> entry.target] }
        ELSE {}

----------------------------------------------------------------------------
\* Style computer (animations/index.ts and the four families)

Directions == {"up", "down", "left", "right"}

slideTransforms ==
  [up    |-> [initial |-> "translate3d(0, 30px, 0)",  animate |-> "translate3d(0, 0, 0)"],
   down  |-> [initial |-> "translate3d(0, -30px, 0)", animate |-> "translate3d(0, 0, 0)"],
   left  |-> [initial |-> "translate3d(30px, 0, 0)",  animate |-> "translate3d(0, 0, 0)"],
   right |-> [initial |-> "translate3d(-30px, 0, 0)", animate |-> "translate3d(0, 0, 0)"]]

zoomScales ==
  [up    |-> [initial |-> "scale3d(0.8, 0.8, 1) translateZ(0)",
              animate |-> "scale3d(1, 1, 1) translateZ(0)"],
   down  |-> [initial |-> "scale3d(1.2, 1.2, 1) translateZ(0)",
              animate |-> "scale3d(1, 1, 1) translateZ(0)"],
   left  |-> [initial |-> "scale3d(0.8, 0.8, 1) translateZ(0)",
              animate |-> "scale3d(1, 1, 1) translateZ(0)"],
   right |-> [initial |-> "scale3d(0.8, 0.8, 1) translateZ(0)",
              animate |-> "scale3d(1, 1, 1) translateZ(0)"]]

flipTransforms ==
  [up    |-> [initial |-> "perspective(400px) rotateX(90deg) translateZ(0)",
              animate |-> "perspective(400px) rotateX(0deg) translateZ(0)"],
   down  |-> [initial |-> "perspective(400px) rotateX(-90deg) translateZ(0)",
              animate |-> "perspective(400px) rotateX(0deg) translateZ(0)"],
   left  |-> [initial |-> "perspective(400px) rotateY(-90deg) translateZ(0)",
              animate |-> "perspective(400px) rotateY(0deg) translateZ(0)"],
   right |-> [initial |-> "perspective(400px) rotateY(90deg) translateZ(0)",
              animate |-> "perspective(400px) rotateY(0deg) translateZ(0)"]]

\* A CSSAnimationProperties value; transition "" = the property is absent.
css(opacity, transform, willChange, transition) ==
  [opacity |-> opacity, transform |-> transform, willChange |-> willChange,
   backfaceVisibility |-> "hidden", transition |-> transition]

getFadeStyles(phase) ==
  IF phase = "initial"
    THEN css("0", "translateZ(0)", "opacity, transform", "")
    ELSE css("1", "translateZ(0)", "auto", "")

getSlideStyles(phase, direction) ==
  IF phase = "initial"
    THEN css("0", slideTransforms[direction].initial, "transform, opacity", "")
    ELSE css("1", "translate3d(0, 0, 0)", "auto", "")

getZoomStyles_sameScale(phase, direction) ==
  IF phase = "initial"
    THEN css("0", zoomScales["up"].initial, "transform, opacity", "")
    ELSE css("1", "scale3d(1, 1, 1) translateZ(0)", "auto", "")

getZoomStyles(phase, direction) ==
  IF phase = "initial"
    THEN css("0", zoomScales[direction].initial, "transform, opacity", "")
    ELSE css("1", "scale3d(1, 1, 1) translateZ(0)", "auto", "")

getFlipStyles(phase, direction) ==
  IF phase = "initial"
    THEN css("0", flipTransforms[direction].initial, "transform, opacity", "")
    ELSE css("1", flipTransforms[direction].animate, "auto", "")

\* getAnimationStyles: any other type falls back to fade
getAnimationStyles(type, direction, phase) ==
  CASE type = "fade"  -> getFadeStyles(phase)
    [] type = "slide" -> getSlideStyles(phase, direction)
    [] type = "zoom"  -> getZoomStyles(phase, direction)
    [] type = "flip"  -> getFlipStyles(phase, direction)
    [] OTHER          -> getFadeStyles(phase)

\* createAnimationStyles of utils/animationUtils: the same families computed
\* inline; the zoom case does not read the direction
createAnimationStyles(type, direction, phase) ==
  LET base == [willChange |-> IF phase = "initial" THEN "transform, opacity" ELSE "auto",
               backfaceVisibility |-> "hidden", perspective |-> "1000px"]
      properties(opacity, transform) ==
        [opacity |-> opacity, transform |-> transform] @@ base
      opacity == IF phase = "initial" THEN "0" ELSE "1"
  IN  CASE type = "fade"  -> properties(opacity, "translateZ(0)")
        [] type = "slide" ->
             properties(opacity,
                        IF phase = "initial"
                          THEN CASE direction = "up"    -> "translate3d(0, 30px, 0)"
                                 [] direction = "down"  -> "translate3d(0, -30px, 0)"
                                 [] direction = "left"  -> "translate3d(30px, 0, 0)"
                                 [] direction = "right" -> "translate3d(-30px, 0, 0)"
                          ELSE "translate3d(0, 0, 0)")
        [] type = "zoom"  ->
             properties(opacity,
                        IF phase = "initial"
                          THEN "scale3d(0.8, 0.8, 1) translateZ(0)"
                          ELSE "scale3d(1, 1, 1) translateZ(0)")
        [] type = "flip"  ->
             properties(opacity,
                        CASE direction = "up" ->
                               IF phase = "initial"
                                 THEN "perspective(400px) rotateX(90deg) translateZ(0)"
                                 ELSE "perspective(400px) rotateX(0deg) translateZ(0)"
                          [] direction = "down" ->
                               IF phase = "initial"
                                 THEN "perspective(400px) rotateX(-90deg) translateZ(0)"
                                 ELSE "perspective(400px) rotateX(0deg) translateZ(0)"
                          [] direction = "left" ->
                               IF phase = "initial"
                                 THEN "perspective(400px) rotateY(-90deg) translateZ(0)"
                                 ELSE "perspective(400px) rotateY(0deg) translateZ(0)"
                          [] direction = "right" ->
                               IF phase = "initial"
                                 THEN "perspective(400px) rotateY(90deg) translateZ(0)"
                                 ELSE "perspective(400px) rotateY(0deg) translateZ(0)")

\* createCompleteAnimationStyles: the transition is added for the animate phase only
createCompleteAnimationStyles(type, direction, phase, duration, delay, easing) ==
  LET animationStyles == getAnimationStyles(type, direction, phase)
  IN  IF phase = "animate"
        THEN [animationStyles EXCEPT !.transition =
                "all " \o ToString(duration) \o "ms " \o easing \o " "
                       \o ToString(delay) \o "ms"]
        ELSE animationStyles

\* Object.assign(element.style, styles): an absent transition leaves the element's
assignStyles(elementStyle, styles) ==
  [styles EXCEPT !.transition =
     IF styles.transition # "" THEN styles.transition ELSE elementStyle.transition]

UnsetStyle ==
  [opacity |-> "", transform |-> "", willChange |-> "", backfaceVisibility |-> "",
   transition |-> ""]

----------------------------------------------------------------------------
\* useScrollAnimation and useIntersectionObserver (one component, element e1)

HookElement == "e1"
HookThreshold == 2          \* threshold: 0.1

\* The component's state as one value, so that handlers compose sequentially.
CtlState ==
  [mounted |-> mounted, isHydrated |-> isHydrated, isVisible |-> isVisible,
   isAnimating |-> isAnimating, hasAnimated |-> hasAnimated,
   isIntersecting |-> isIntersecting, wasVisibleRef |-> wasVisibleRef,
   animationTimeoutRef |-> animationTimeoutRef, elementRef |-> elementRef,
   rendered |-> rendered, orphanTimers |-> orphanTimers,
   timeoutDelay |-> timeoutDelay,
   animateFrames |-> animateFrames,
   style |-> style, isConnected |-> isConnected, onStartCount |-> onStartCount,
   onEndCount |-> onEndCount, sinceReset |-> sinceReset,
   calledAfterUnmount |-> calledAfterUnmount]

SetCtl(c) ==
  /\ mounted' = c.mounted /\ isHydrated' = c.isHydrated /\ isVisible' = c.isVisible
  /\ isAnimating' = c.isAnimating /\ hasAnimated' = c.hasAnimated
  /\ isIntersecting' = c.isIntersecting /\ wasVisibleRef' = c.wasVisibleRef
  /\ animationTimeoutRef' = c.animationTimeoutRef /\ elementRef' = c.elementRef
  /\ rendered' = c.rendered /\ orphanTimers' = c.orphanTimers
  /\ timeoutDelay' = c.timeoutDelay
  /\ animateFrames' = c.animateFrames
  /\ style' = c.style /\ isConnected' = c.isConnected
  /\ onStartCount' = c.onStartCount /\ onEndCount' = c.onEndCount
  /\ sinceReset' = c.sinceReset /\ calledAfterUnmount' = c.calledAfterUnmount
  /\ UNCHANGED <<normalizedConfig, reducedMotion, hasIO, disabled,
                 respectMotionPreferences>>

\* the pending completion timers
PendingTimers(c) ==
  (IF c.animationTimeoutRef = "pending" THEN {"stored"} ELSE {})
    \cup (IF c.orphanTimers > 0 THEN {"orphan"} ELSE {})

\* the state values a render captures in its closures
Snapshot(c) ==
  [isHydrated |-> c.isHydrated, isVisible |-> c.isVisible,
   isAnimating |-> c.isAnimating, hasAnimated |-> c.hasAnimated,
   isIntersecting |-> c.isIntersecting]

motionDisabled_ignoresPreference(r) == ~r.isHydrated

\* motionDisabled = shouldReduceMotion() || isHydrating || !isHydrated, as captured
motionDisabled(r) == reducedMotion \/ ~r.isHydrated

\* what the hook returns to the render that captured r
useScrollAnimationReturn(r) ==
  IF motionDisabled(r)
    THEN [isVisible |-> TRUE, isAnimating |-> FALSE]
    ELSE [isVisible |-> r.isVisible, isAnimating |-> r.isAnimating]

\* AnimationProvider: motionDisabled = respectMotionPreferences ?
\* shouldReduceMotion() : false, which useAnimationDisabled returns (or'ed with
\* the provider's disabled); without a provider it returns shouldReduceMotion()
globalMotionDisabled == respectMotionPreferences /\ reducedMotion

\* AnimateOnView: isDisabled = disabled || globalDisabled || isHydrating ||
\* fallbackStrategy.strategy === 'static' (CSS transforms and transitions are
\* taken to be supported; the component is hydrating until it is hydrated)
isDisabled(r) == disabled \/ globalMotionDisabled \/ ~r.isHydrated

\* AnimateOnView: the state classes of combinedClassName, the one place that
\* reads isDisabled besides the choice of the className prop; the component
\* calls useScrollAnimation(animationConfig, callbacks) whatever isDisabled is
combinedClassName(r) ==
  IF isDisabled(r) THEN {}
  ELSE {"animate-on-view"}
         \cup (IF useScrollAnimationReturn(r).isVisible
                 THEN {"animate-on-view--visible"} ELSE {})
         \cup (IF useScrollAnimationReturn(r).isAnimating
                 THEN {"animate-on-view--animating"} ELSE {})

\* observerOptions of useScrollAnimation as useIntersectionObserver hands them on
hookOptions ==
  opts("null",
       IF normalizedConfig.offset # 0
         THEN ToString(normalizedConfig.offset) \o "px" ELSE "0px",
       0, HookThreshold)

\* setState of a mounted component; React drops updates of an unmounted one
setState(c, updated) == IF c.mounted THEN updated ELSE c

\* the delay of the completion timer:
\* (normalizedConfig.duration || 600) + (normalizedConfig.delay || 0)
totalDuration ==
  (IF normalizedConfig.duration # 0 THEN normalizedConfig.duration ELSE 600)
    + (IF normalizedConfig.delay # 0 THEN normalizedConfig.delay ELSE 0)

\* trigger, with the state values r its closure captured
trigger(c, r) ==
  IF ~c.elementRef \/ ~c.isConnected \/ r.isAnimating \/ motionDisabled(r)
    THEN c
  ELSE IF r.hasAnimated /\ normalizedConfig.once
    THEN c
  ELSE
    LET c1 == setState(c, [c EXCEPT !.isAnimating = TRUE, !.isVisible = TRUE])
    IN  [c1 EXCEPT
           !.onStartCount = @ + 1,
           !.calledAfterUnmount = @ \/ ~c.mounted,
           !.style = assignStyles(@, getAnimationStyles(normalizedConfig.type,
                                       normalizedConfig.direction, "initial")),
           !.animateFrames = @ + 1,
           !.orphanTimers = IF c.animationTimeoutRef = "pending" THEN @ + 1 ELSE @,
           !.animationTimeoutRef = "pending",
           !.timeoutDelay = totalDuration,
           !.sinceReset = FALSE]

\* the animation-frame callback of trigger: apply the animate style with transition
applyAnimatedStyles(c) ==
  [c EXCEPT
     !.animateFrames = @ - 1,
     !.style = assignStyles(@, createCompleteAnimationStyles(
                 normalizedConfig.type, normalizedConfig.direction, "animate",
                 normalizedConfig.duration, normalizedConfig.delay,
                 normalizedConfig.easing))]

\* the completion timer's callback; timer = "stored" for the timer whose handle
\* animationTimeoutRef holds, "orphan" for another pending one
completeAnimation(c, timer) ==
  LET c1 == setState(c, [c EXCEPT !.isAnimating = FALSE, !.hasAnimated = TRUE])
  IN  [c1 EXCEPT
         !.animationTimeoutRef = IF timer = "stored" THEN "stale" ELSE @,
         !.orphanTimers = IF timer = "orphan" THEN @ - 1 ELSE @,
         !.onEndCount = @ + 1,
         !.calledAfterUnmount = @ \/ ~c.mounted,
         !.style.transition = "",
         !.style.willChange = IF @ # "" /\ @ # "auto" THEN "auto" ELSE @]

reset_keepsVisible(c) ==
  IF ~c.elementRef THEN c
  ELSE
    LET c1 == setState(c, [c EXCEPT !.isAnimating = FALSE, !.hasAnimated = FALSE])
    IN  [c1 EXCEPT
           !.animationTimeoutRef = "null",
           !.style = [getAnimationStyles(normalizedConfig.type,
                         normalizedConfig.direction, "initial")
                      EXCEPT !.transition = ""],
           !.sinceReset = TRUE]

\* reset: cancel the stored timer, clear the state, re-apply the initial style
reset(c) ==
  IF ~c.elementRef THEN c
  ELSE
    LET c1 == setState(c, [c EXCEPT !.isVisible = FALSE, !.isAnimating = FALSE,
                                    !.hasAnimated = FALSE])
    IN  [c1 EXCEPT
           !.animationTimeoutRef = "null",
           !.style = [getAnimationStyles(normalizedConfig.type,
                         normalizedConfig.direction, "initial")
                      EXCEPT !.transition = ""],
           !.sinceReset = TRUE]

\* handleIntersection, the closure `callback` (it captured isIntersecting), called
\* with one entry; w = [pool, ctl]
handleIntersection(w, callback, entry) ==
  LET capturedIsIntersecting == (callback = "handleIntersection:true")
      shouldTrigger == shouldTriggerWithThreshold(entry.ratio, HookThreshold,
                                                  w.ctl.wasVisibleRef)
  IN  IF shouldTrigger # capturedIsIntersecting
        THEN [pool |-> IF normalizedConfig.once /\ shouldTrigger /\ w.ctl.elementRef
                         THEN unobserve(w.pool, HookElement) ELSE w.pool,
              ctl  |-> [setState(w.ctl, [w.ctl EXCEPT !.isIntersecting = shouldTrigger])
                          EXCEPT !.wasVisibleRef = shouldTrigger]]
        ELSE w

handleIntersectionChanges_ignoresOnce(c, r, mirror, once) ==
  IF motionDisabled(r) THEN c
  ELSE IF r.isIntersecting /\ ~r.isVisible /\ ~r.isAnimating THEN trigger(c, r)
  ELSE IF ~r.isIntersecting /\ r.isVisible /\ mirror THEN reset(c)
  ELSE c

\* the body of the effect "Handle intersection changes" for the values of
\* normalizedConfig.mirror and normalizedConfig.once it reads
handleIntersectionChanges(c, r, mirror, once) ==
  IF motionDisabled(r) THEN c
  ELSE IF r.isIntersecting /\ ~r.isVisible /\ ~r.isAnimating THEN trigger(c, r)
  ELSE IF ~r.isIntersecting /\ r.isVisible /\ mirror /\ ~once THEN reset(c)
  ELSE c

intersectionEffect_ignoresOnce(c, r) ==
  IF motionDisabled(r) THEN c
  ELSE IF r.isIntersecting /\ ~r.isVisible /\ ~r.isAnimating THEN trigger(c, r)
  ELSE IF ~r.isIntersecting /\ r.isVisible /\ normalizedConfig.mirror THEN reset(c)
  ELSE c

\* the effect "Handle intersection changes", run by a render that captured r
intersectionEffect(c, r) ==
  handleIntersectionChanges(c, r, normalizedConfig.mirror, normalizedConfig.once)

\* did the observation effect of the render that captured r reach observe()?
observationActive(r) == ~motionDisabled(r) /\ r.isHydrated /\ hasIO

\* the effect "set up and clean up observation", re-run when handleIntersection
\* (deps: isIntersecting, isHydrated) or isHydrated changed: cleanup, then body
observationEffect(p, prev, r) ==
  IF prev.isIntersecting = r.isIntersecting /\ prev.isHydrated = r.isHydrated
    THEN p
  ELSE
    LET p1 == IF observationActive(prev) THEN unobserve(p, HookElement) ELSE p
    IN  IF observationActive(r)
          THEN observe(p1, HookElement,
                       IF r.isIntersecting THEN "handleIntersection:true"
                                           ELSE "handleIntersection:false",
                       hookOptions)
          ELSE p1

\* a re-render: new closures capture the current state, then the effects run
render(w) ==
  LET r == Snapshot(w.ctl)
      c1 == [w.ctl EXCEPT !.rendered = r]
  IN  [pool |-> observationEffect(w.pool, w.ctl.rendered, r),
       ctl  |-> intersectionEffect(c1, r)]

\* unmount: the effects' cleanups run, then React clears the ref
unmount(w) ==
  [pool |-> unobserve(unobserve(w.pool, HookElement), HookElement),
   ctl  |-> [w.ctl EXCEPT !.animationTimeoutRef = IF @ = "pending" THEN "stale" ELSE @,
                          !.mounted = FALSE, !.elementRef = FALSE]]

----------------------------------------------------------------------------
\* Processing of a deferred batch: entry by entry, each callback runs to completion

World == [pool |-> PoolState, ctl |-> CtlState]

invokeAll(w, invocations, entry) ==
  IF \E inv \in invocations : inv.callback \in HookCallbacks
    THEN handleIntersection(w,
           (CHOOSE inv \in invocations : inv.callback \in HookCallbacks).callback,
           entry)
    ELSE w

RECURSIVE processEntries(_, _, _)
processEntries(x, entries, i) ==
  IF i > Len(entries) THEN x
  ELSE LET invocations == entryCallbacks(x.world.pool, entries[i])
       IN  processEntries([world   |-> invokeAll(x.world, invocations, entries[i]),
                           invoked |-> Append(x.invoked, invocations)],
                          entries, i + 1)

----------------------------------------------------------------------------
\* Initial states

PoolInit ==
  /\ observerInstances = <<>>
  /\ elementCallbacks = [e \in Elements |-> NoCallback]
  /\ elementObservers = [e \in Elements |-> NoObserver]
  /\ ioObservers = <<>>
  /\ rafQueue = <<>>
  /\ invoked = <<>>
  /\ poolError = FALSE
  /\ lastCall = NoCall

config(type, direction, once, mirror) ==
  [type |-> type, direction |-> direction, duration |-> 600, delay |-> 0,
   easing |-> "ease", offset |-> 0, once |-> once, mirror |-> mirror]

Configs ==
  { config("slide", "left", once, mirror) : once \in BOOLEAN, mirror \in BOOLEAN }
    \cup { [config("slide", "left", FALSE, TRUE) EXCEPT !.duration = 300, !.delay = 200] }

\* the component as first rendered: not yet hydrated, nothing observed
CtlMounted ==
  /\ mounted = TRUE /\ isHydrated = FALSE
  /\ isVisible = FALSE /\ isAnimating = FALSE /\ hasAnimated = FALSE
  /\ isIntersecting = FALSE /\ wasVisibleRef = FALSE
  /\ animationTimeoutRef = "null" /\ elementRef = TRUE
  /\ rendered = [isHydrated |-> FALSE, isVisible |-> FALSE, isAnimating |-> FALSE,
                 hasAnimated |-> FALSE, isIntersecting |-> FALSE]
  /\ orphanTimers = 0 /\ timeoutDelay = 0 /\ animateFrames = 0
  /\ style = UnsetStyle /\ isConnected = TRUE
  /\ onStartCount = 0 /\ onEndCount = 0
  /\ sinceReset = FALSE /\ calledAfterUnmount = FALSE

\* no component: only the pool, or only the classifier, is exercised
CtlAbsent ==
  /\ normalizedConfig = config("fade", "up", TRUE, FALSE)
  /\ reducedMotion = FALSE /\ hasIO = TRUE /\ disabled = FALSE /\ respectMotionPreferences = TRUE
  /\ mounted = FALSE /\ isHydrated = FALSE
  /\ isVisible = FALSE /\ isAnimating = FALSE /\ hasAnimated = FALSE
  /\ isIntersecting = FALSE /\ wasVisibleRef = FALSE
  /\ animationTimeoutRef = "null" /\ elementRef = FALSE
  /\ rendered = [isHydrated |-> FALSE, isVisible |-> FALSE, isAnimating |-> FALSE,
                 hasAnimated |-> FALSE, isIntersecting |-> FALSE]
  /\ orphanTimers = 0 /\ timeoutDelay = 0 /\ animateFrames = 0
  /\ style = UnsetStyle /\ isConnected = TRUE
  /\ onStartCount = 0 /\ onEndCount = 0
  /\ sinceReset = FALSE /\ calledAfterUnmount = FALSE

ClsIdle ==
  /\ clsRatio = 0 /\ clsThreshold = 0 /\ clsWasVisible = FALSE /\ clsResult = "unset"

----------------------------------------------------------------------------
\* Pool operations as actions (direct users of observerManager)

ObserveCall(element, callback, options) ==
  /\ \/ createObserverKey(options) \in DOMAIN observerInstances
     \/ Len(ioObservers) < MaxObservers
  /\ SetPool(observe(PoolState, element, callback, options))
  /\ lastCall' = IF /\ elementObservers[element] # NoObserver
                      /\ ioObservers[elementObservers[element]].connected
                      /\ elementObservers'[element] # elementObservers[element]
                   THEN [op |-> "observe", element |-> element,
                         prior |-> elementObservers[element]]
                   ELSE NoCall
  /\ invoked' = <<>>
  /\ UNCHANGED <<rafQueue, ctlVars, clsVars, cfgVars, onceVars, styleVars>>

Observe ==
  \E element \in Elements, callback \in Callbacks, options \in WatchOptions :
    ObserveCall(element, callback, options)

UnobserveCall(element) ==
  /\ SetPool(unobserve(PoolState, element))
  /\ lastCall' = IF /\ elementObservers[element] = NoObserver
                      /\ \E e \in Elements : elementObservers[e] # NoObserver
                   THEN [op |-> "unobserve", element |-> element, prior |-> NoObserver]
                   ELSE NoCall
  /\ invoked' = <<>>
  /\ UNCHANGED <<rafQueue, ctlVars, clsVars, cfgVars, onceVars, styleVars>>

Unobserve == \E element \in Elements : UnobserveCall(element)

Disconnect ==
  /\ SetPool(disconnect(PoolState))
  /\ invoked' = <<>> /\ lastCall' = NoCall
  /\ UNCHANGED <<rafQueue, ctlVars, clsVars, cfgVars, onceVars, styleVars>>

\* A queued entry records its target and the observer that measured it; the
\* intersectionRatio it carries is drawn when the batch is processed, since
\* nothing reads it earlier.
Batches(o, maxLen) ==
  UNION { [1..n -> [target : ioObservers[o].observed, observer : {o}]]
          : n \in 1..maxLen }

RECURSIVE QueuedEntries(_)
QueuedEntries(queue) ==
  IF queue = <<>> THEN 0 ELSE Len(Head(queue)) + QueuedEntries(Tail(queue))

\* the platform delivers a batch to an observer's callback, which defers its
\* processing to the next animation frame (optimizedRAF)
Deliver ==
  \E o \in DOMAIN ioObservers :
    /\ ioObservers[o].connected
    /\ ioObservers[o].observed # {}
    /\ \E entries \in Batches(o, MaxQueued - QueuedEntries(rafQueue)) :
         rafQueue' = Append(rafQueue, entries)
    /\ invoked' = <<>> /\ lastCall' = NoCall
    /\ UNCHANGED <<observerInstances, elementCallbacks, elementObservers, ioObservers,
                   poolError, ctlVars, clsVars, cfgVars, onceVars, styleVars>>

\* the ratios a batch can carry; only handleIntersection reads an entry's ratio,
\* so one value stands for all where no hook callback is registered
RatiosOf(batch) ==
  { ratios \in [DOMAIN batch -> Ratios] :
      \A i \in DOMAIN batch :
        elementCallbacks[batch[i].target] \notin HookCallbacks => ratios[i] = 1 }

\* an animation frame runs the oldest deferred batch, whose entries carry ratios
ProcessFrameWith(ratios) ==
  /\ LET entries == [i \in DOMAIN Head(rafQueue) |->
                       [target   |-> Head(rafQueue)[i].target,
                        observer |-> Head(rafQueue)[i].observer,
                        ratio    |-> ratios[i]]]
         x == processEntries([world |-> World, invoked |-> <<>>], entries, 1)
     IN  /\ SetPool(x.world.pool)
         /\ SetCtl(x.world.ctl)
         /\ invoked' = x.invoked
  /\ lastCall' = NoCall
  /\ rafQueue' = Tail(rafQueue)
  /\ UNCHANGED <<clsVars, cfgVars, onceVars, styleVars>>

ProcessFrame ==
  /\ rafQueue # <<>>
  /\ \E ratios \in RatiosOf(Head(rafQueue)) : ProcessFrameWith(ratios)

----------------------------------------------------------------------------
\* The component's events

\* hydration is detected: setHydrationState({isHydrated: true, ...})
Hydrate ==
  /\ mounted /\ ~isHydrated
  /\ isHydrated' = TRUE
  /\ invoked' = <<>> /\ lastCall' = NoCall
  /\ UNCHANGED <<observerInstances, elementCallbacks, elementObservers, ioObservers,
                 rafQueue, poolError, clsVars, cfgVars, onceVars, styleVars>>
  /\ UNCHANGED <<normalizedConfig, reducedMotion, hasIO, disabled, respectMotionPreferences,
                 mounted, isVisible,
                 isAnimating, hasAnimated, isIntersecting, wasVisibleRef,
                 animationTimeoutRef, elementRef, rendered, orphanTimers,
                 timeoutDelay, animateFrames, style, isConnected, onStartCount, onEndCount, sinceReset,
                 calledAfterUnmount>>

\* React re-renders the component after a state change and runs its effects
Render ==
  /\ mounted
  /\ Snapshot(CtlState) # rendered
  /\ LET w == render(World)
     IN  /\ w.ctl.onStartCount <= MaxTriggers
         /\ SetPool(w.pool)
         /\ SetCtl(w.ctl)
  /\ invoked' = <<>> /\ lastCall' = NoCall
  /\ UNCHANGED <<rafQueue, clsVars, cfgVars, onceVars, styleVars>>

\* a call of the no-op trigger/reset that the disabled mode returns, as lastCall
disabledCall(op) ==
  IF motionDisabled(rendered)
    THEN [op |-> op, element |-> HookElement, prior |-> NoObserver]
    ELSE NoCall

\* the caller invokes the trigger() the last render returned
Trigger ==
  /\ onStartCount < MaxTriggers
  /\ SetCtl(IF motionDisabled(rendered) THEN CtlState ELSE trigger(CtlState, rendered))
  /\ invoked' = <<>> /\ lastCall' = disabledCall("trigger")
  /\ UNCHANGED <<observerInstances, elementCallbacks, elementObservers, ioObservers,
                 rafQueue, poolError, clsVars, cfgVars, onceVars, styleVars>>

\* the caller invokes the reset() the last render returned
Reset ==
  /\ SetCtl(IF motionDisabled(rendered) THEN CtlState ELSE reset(CtlState))
  /\ invoked' = <<>> /\ lastCall' = disabledCall("reset")
  /\ UNCHANGED <<observerInstances, elementCallbacks, elementObservers, ioObservers,
                 rafQueue, poolError, clsVars, cfgVars, onceVars, styleVars>>

\* an animation frame runs a pending animate-phase callback
AnimateFrame ==
  /\ animateFrames > 0
  /\ SetCtl(applyAnimatedStyles(CtlState))
  /\ invoked' = <<>> /\ lastCall' = NoCall
  /\ UNCHANGED <<observerInstances, elementCallbacks, elementObservers, ioObservers,
                 rafQueue, poolError, clsVars, cfgVars, onceVars, styleVars>>

\* a pending completion timer fires
CompletionTimer ==
  \E timer \in PendingTimers(CtlState) :
    /\ SetCtl(completeAnimation(CtlState, timer))
    /\ invoked' = <<>> /\ lastCall' = NoCall
    /\ UNCHANGED <<observerInstances, elementCallbacks, elementObservers, ioObservers,
                   rafQueue, poolError, clsVars, cfgVars, onceVars, styleVars>>

\* the component unmounts
Unmount ==
  /\ mounted
  /\ LET w == unmount(World)
     IN  SetPool(w.pool) /\ SetCtl(w.ctl)
  /\ invoked' = <<>> /\ lastCall' = NoCall
  /\ UNCHANGED <<rafQueue, clsVars, cfgVars, onceVars, styleVars>>

\* the element is removed from the document while the component stays mounted
Detach ==
  /\ mounted /\ isConnected
  /\ SetCtl([CtlState EXCEPT !.isConnected = FALSE])
  /\ invoked' = <<>> /\ lastCall' = NoCall
  /\ UNCHANGED <<observerInstances, elementCallbacks, elementObservers, ioObservers,
                 rafQueue, poolError, clsVars, cfgVars, onceVars, styleVars>>

----------------------------------------------------------------------------
\* Configuration values as the caller passes them (animationUtils.ts)
\*
\* A JavaScript value is a record [t, v]: t is its typeof ("NaN" for the number
\* NaN), v its payload. Strings are sequences of characters, so that indexOf,
\* slice and split are computed as the code computes them.

undefined == [t |-> "undefined", v |-> 0]
NaN       == [t |-> "NaN", v |-> 0]
num(n)    == [t |-> "number", v |-> n]
str(s)    == [t |-> "string", v |-> s]
bool(b)   == [t |-> "boolean", v |-> b]

\* ToBoolean, as `&&`, `||` and `if` apply it
truthy(x) ==
  CASE x.t = "undefined" -> FALSE
    [] x.t = "NaN"       -> FALSE
    [] x.t = "number"    -> x.v # 0
    [] x.t = "string"    -> x.v # <<>>
    [] x.t = "boolean"   -> x.v

\* a ?? b  and  a || b
nullish(a, b) == IF a.t = "undefined" THEN b ELSE a
orElse(a, b)  == IF truthy(a) THEN a ELSE b

\* Math.min and Math.max of two numbers (NaN if either is NaN)
mathMin(a, b) ==
  IF a.t = "NaN" \/ b.t = "NaN" THEN NaN ELSE IF a.v <= b.v THEN a ELSE b
mathMax(a, b) ==
  IF a.t = "NaN" \/ b.t = "NaN" THEN NaN ELSE IF a.v >= b.v THEN a ELSE b

\* the strings the code names
s_fade == <<"f", "a", "d", "e">>
s_ease == <<"e", "a", "s", "e">>
s_cubicBezier == <<"c", "u", "b", "i", "c", "-", "b", "e", "z", "i", "e", "r", "(">>

validTypes ==
  { s_fade, <<"s", "l", "i", "d", "e">>, <<"z", "o", "o", "m">>,
    <<"f", "l", "i", "p">> }

validDirections ==
  { <<"u", "p">>, <<"d", "o", "w", "n">>, <<"l", "e", "f", "t">>,
    <<"r", "i", "g", "h", "t">> }

builtInEasing ==
  { s_ease, s_ease \o <<"-", "i", "n">>, s_ease \o <<"-", "o", "u", "t">>,
    s_ease \o <<"-", "i", "n", "-", "o", "u", "t">>,
    <<"l", "i", "n", "e", "a", "r">> }

otherValidEasing ==
  { <<"s", "t", "e", "p", "s", "(">>, <<"f", "r", "a", "m", "e", "s", "(">> }

\* s.indexOf(prefix) === 0
startsWith(s, prefix) ==
  Len(s) >= Len(prefix) /\ SubSeq(s, 1, Len(prefix)) = prefix

\* s.split(','): the pieces between the commas
RECURSIVE splitComma(_)
splitComma(s) ==
  IF \A i \in 1..Len(s) : s[i] # ","
    THEN <<s>>
    ELSE LET i == CHOOSE k \in 1..Len(s) :
                    s[k] = "," /\ \A j \in 1..(k - 1) : s[j] # ","
         IN  <<SubSeq(s, 1, i - 1)>> \o splitComma(SubSeq(s, i + 1, Len(s)))

\* isNaN(parseFloat(v.trim())): no number can be read at the start of v
RECURSIVE trimStart(_)
trimStart(s) == IF s # <<>> /\ s[1] = " " THEN trimStart(Tail(s)) ELSE s

parseFloatIsNaN(v) ==
  LET Digits == {"0", "1", "2", "3", "4", "5", "6", "7", "8", "9"}
      t == trimStart(v)
      u == IF t # <<>> /\ t[1] \in {"+", "-"} THEN Tail(t) ELSE t
  IN  ~ \/ (Len(u) >= 1 /\ u[1] \in Digits)
        \/ (Len(u) >= 2 /\ u[1] = "." /\ u[2] \in Digits)
        \/ startsWith(u, <<"I", "n", "f", "i", "n", "i", "t", "y">>)

\* The validators return TRUE or FALSE; what they warn is not modelled.

validateDuration(duration) ==
  IF duration.t # "number" THEN FALSE
  ELSE IF duration.v < 100 THEN FALSE
  ELSE IF duration.v > 3000 THEN FALSE
  ELSE TRUE

validateDelay(delay) ==
  IF delay.t # "number" THEN FALSE
  ELSE IF delay.v < 0 THEN FALSE
  ELSE IF delay.v > 2000 THEN FALSE
  ELSE TRUE

validateOffset(offset) == offset.t = "number"

validateAnimationType(type) == type.t = "string" /\ type.v \in validTypes

validateAnimationDirection(direction, type) ==
  direction.t = "string" /\ direction.v \in validDirections

\* validateEasing returns [raised, value]: a call of easing.indexOf on a value
\* that is not a string raises a TypeError
returned(value) == [raised |-> FALSE, value |-> value]
thrown(name, message, code) ==
  [raised |-> TRUE, value |-> [name |-> name, message |-> message, code |-> code]]
TypeError == thrown("TypeError", "easing.indexOf is not a function", "")
AnimationError(message, code) == thrown("AnimationError", message, code)

validateEasing(easing) ==
  IF easing.t = "string" /\ easing.v \in builtInEasing THEN returned(TRUE)
  ELSE IF easing.t # "string" THEN TypeError
  ELSE IF startsWith(easing.v, s_cubicBezier)
    THEN IF easing.v[Len(easing.v)] # ")"
           THEN returned(FALSE)
         ELSE LET values == splitComma(SubSeq(easing.v, 14, Len(easing.v) - 1))
              IN  IF Len(values) # 4
                       \/ \E i \in 1..Len(values) : parseFloatIsNaN(values[i])
                    THEN returned(FALSE)
                    ELSE returned(TRUE)
  ELSE IF \E prefix \in otherValidEasing : startsWith(easing.v, prefix)
    THEN returned(TRUE)
  ELSE returned(FALSE)

\* A configuration object is a function from the keys it has to their values;
\* reading a key it lacks gives undefined.
ConfigKeys ==
  {"type", "direction", "duration", "delay", "easing", "offset", "once", "mirror"}

field(cfg, key) == IF key \in DOMAIN cfg THEN cfg[key] ELSE undefined

\* validateAnimationConfig: returns, or throws on the first failing check
validateAnimationConfig(cfg) ==
  LET type      == field(cfg, "type")
      direction == field(cfg, "direction")
      duration  == field(cfg, "duration")
      delay     == field(cfg, "delay")
      offset    == field(cfg, "offset")
      easing    == field(cfg, "easing")
  IN  IF ~validateAnimationType(type)
        THEN AnimationError("Invalid animation type", "UNSUPPORTED_ANIMATION")
      ELSE IF truthy(direction) /\ ~validateAnimationDirection(direction, type)
        THEN AnimationError("Invalid animation direction", "INVALID_CONFIG")
      ELSE IF duration # undefined /\ ~validateDuration(duration)
        THEN AnimationError("Duration must be between 100-3000ms", "INVALID_DURATION")
      ELSE IF delay # undefined /\ ~validateDelay(delay)
        THEN AnimationError("Delay must be between 0-2000ms", "INVALID_DELAY")
      ELSE IF offset # undefined /\ ~validateOffset(offset)
        THEN AnimationError("Invalid offset value", "INVALID_OFFSET")
      ELSE IF truthy(easing) /\ validateEasing(easing).raised
        THEN validateEasing(easing)
      ELSE IF truthy(easing) /\ ~validateEasing(easing).value
        THEN AnimationError("Invalid easing function", "INVALID_CONFIG")
      ELSE returned(undefined)

\* normalizeAnimationConfig: returns the canonical configuration, or throws what
\* validateEasing throws
normalizeAnimationConfig(cfg) ==
  LET type      == field(cfg, "type")
      direction == field(cfg, "direction")
      duration  == field(cfg, "duration")
      delay     == field(cfg, "delay")
      offset    == field(cfg, "offset")
      easing    == field(cfg, "easing")
      normalizedType ==
        IF truthy(type) /\ validateAnimationType(type) THEN type ELSE str(s_fade)
      normalizedDirection ==
        IF truthy(direction) /\ ~validateAnimationDirection(direction, normalizedType)
          THEN undefined ELSE direction
      normalizedDuration ==
        IF duration # undefined /\ ~validateDuration(duration)
          THEN mathMax(num(100), mathMin(num(3000), orElse(duration, num(600))))
          ELSE nullish(duration, num(600))
      normalizedDelay ==
        IF delay # undefined /\ ~validateDelay(delay)
          THEN mathMax(num(0), mathMin(num(2000), orElse(delay, num(0))))
          ELSE nullish(delay, num(0))
      normalizedEasing ==
        IF truthy(easing) /\ ~validateEasing(easing).value
          THEN str(s_ease) ELSE nullish(easing, str(s_ease))
      normalizedOffset ==
        IF offset # undefined /\ ~validateOffset(offset)
          THEN num(0) ELSE nullish(offset, num(0))
  IN  IF truthy(easing) /\ validateEasing(easing).raised
        THEN validateEasing(easing)
        ELSE returned(
               [type |-> normalizedType, direction |-> normalizedDirection,
                duration |-> normalizedDuration, delay |-> normalizedDelay,
                easing |-> normalizedEasing, offset |-> normalizedOffset,
                once |-> nullish(field(cfg, "once"), bool(TRUE)),
                mirror |-> nullish(field(cfg, "mirror"), bool(FALSE))])

\* no configuration call is being examined
NoCfgCall == [op |-> "none", provider |-> undefined, result |-> returned(undefined)]

CfgIdle == cfgInput = [type |-> undefined] /\ cfgCall = NoCfgCall

\* the triggerOnce hook and action as constructed, with triggerOnce as given:
\* useState(false) twice, the first render's callback connected by its effect
OnceInit(once) ==
  /\ triggerOnce = once
  /\ isInView = FALSE /\ hasTriggered = FALSE /\ returnedIsInView = FALSE
  /\ inViewCallback = FALSE /\ inViewObserver = FALSE
  /\ actionHasTriggered = FALSE /\ onIntersect = <<>>

\* neither is exercised
OnceIdle == OnceInit(TRUE)

\* the value of utilsStyles and animationsStyles before the call
NoStyles == [called |-> FALSE]

\* no style computer is being examined
StyleIdle ==
  /\ styleArgs = [type |-> "fade", direction |-> "up", phase |-> "initial"]
  /\ utilsStyles = NoStyles /\ animationsStyles = NoStyles

----------------------------------------------------------------------------
\* Specifications

InitPool == PoolInit /\ CtlAbsent /\ ClsIdle /\ CfgIdle /\ OnceIdle /\ StyleIdle

NextPool == Observe \/ Unobserve \/ Disconnect \/ Deliver \/ ProcessFrame

SpecPool == InitPool /\ [][NextPool]_vars

Environments == { <<FALSE, TRUE>>, <<TRUE, TRUE>>, <<FALSE, FALSE>> }

\* the hook used directly: there is no disabled prop
InitCtl ==
  /\ PoolInit /\ ClsIdle /\ CfgIdle /\ OnceIdle /\ StyleIdle /\ CtlMounted
  /\ normalizedConfig \in Configs
  /\ \E env \in Environments : reducedMotion = env[1] /\ hasIO = env[2]
  /\ disabled = FALSE /\ respectMotionPreferences = TRUE

\* the component driven by visibility signals only
NextSignals ==
  \/ Hydrate \/ Render \/ Deliver \/ ProcessFrame
  \/ AnimateFrame \/ CompletionTimer \/ Unmount \/ Detach

SpecSignals == InitCtl /\ [][NextSignals]_vars

\* the hook used through AnimateOnView, with or without disabled
InitComponent ==
  /\ PoolInit /\ ClsIdle /\ CfgIdle /\ OnceIdle /\ StyleIdle /\ CtlMounted
  /\ normalizedConfig \in Configs
  /\ \E env \in Environments : reducedMotion = env[1] /\ hasIO = env[2]
  /\ disabled \in BOOLEAN /\ respectMotionPreferences = TRUE

SpecComponent == InitComponent /\ [][NextSignals]_vars

\* AnimateOnView under <AnimationProvider respectMotionPreferences={false}>,
\* neither of them disabled
InitProvider ==
  /\ PoolInit /\ ClsIdle /\ CfgIdle /\ OnceIdle /\ StyleIdle /\ CtlMounted
  /\ normalizedConfig \in Configs
  /\ \E env \in Environments : reducedMotion = env[1] /\ hasIO = env[2]
  /\ disabled = FALSE /\ respectMotionPreferences = FALSE

SpecProvider == InitProvider /\ [][NextSignals]_vars

\* the zoom family in each direction, driven by visibility signals
InitZoom ==
  /\ PoolInit /\ ClsIdle /\ CfgIdle /\ OnceIdle /\ StyleIdle /\ CtlMounted
  /\ normalizedConfig \in { config("zoom", direction, TRUE, FALSE) :
                              direction \in Directions }
  /\ reducedMotion = FALSE /\ hasIO = TRUE /\ disabled = FALSE /\ respectMotionPreferences = TRUE

SpecZoom == InitZoom /\ [][NextSignals]_vars

\* ... and by manual trigger() calls, reset() never being called
NextNoReset == NextSignals \/ Trigger

SpecNoReset == InitCtl /\ [][NextNoReset]_vars

\* ... and by manual trigger() and reset() calls
NextCtl == NextNoReset \/ Reset

SpecCtl == InitCtl /\ [][NextCtl]_vars

\* Visibility classifier applied to drawn inputs

InitClassifier ==
  /\ PoolInit /\ CtlAbsent /\ CfgIdle /\ OnceIdle /\ StyleIdle
  /\ clsRatio \in 0..MaxRatio
  /\ clsThreshold \in 0..MaxThreshold
  /\ clsWasVisible \in BOOLEAN
  /\ clsResult = "unset"

Classify ==
  /\ clsResult = "unset"
  /\ clsResult' = IF shouldTriggerWithThreshold(clsRatio, clsThreshold, clsWasVisible)
                    THEN "true" ELSE "false"
  /\ UNCHANGED <<clsRatio, clsThreshold, clsWasVisible, poolVars, ctlVars, cfgVars, onceVars, styleVars>>

NextClassifier == Classify

SpecClassifier == InitClassifier /\ [][NextClassifier]_vars

\* The pool used with explicit margins and with offsets of either sign

MarginOptions ==
  { opts("null", rootMargin, offset, 0) :
      rootMargin \in {"", "20px"}, offset \in {-50, 0, 50} }

ObserveMargin ==
  \E element \in Elements, callback \in Callbacks, options \in MarginOptions :
    ObserveCall(element, callback, options)

NextMargin == ObserveMargin \/ Unobserve

SpecMargin == InitPool /\ [][NextMargin]_vars

\* Configuration functions applied to drawn inputs

\* the configuration objects drawn: every field absent, valid, or invalid in each
\* way the code distinguishes
ConfigInputs ==
  [type      : { undefined, str(s_fade), str(<<"z", "o", "o", "m">>),
                 str(<<"i", "n", "v", "a", "l", "i", "d">>) },
   direction : { undefined, str(<<"u", "p">>), str(<<"i", "n">>) },
   duration  : { undefined, NaN }
                 \cup { num(n) : n \in {-50, 0, 99, 100, 600, 3000, 3001} },
   delay     : { undefined, NaN } \cup { num(n) : n \in {-1, 0, 200, 2000, 2001} },
   easing    : { undefined, num(5), str(<<"l", "i", "n", "e", "a", "r">>),
                 str(<<"i", "n", "v", "a", "l", "i", "d">>),
                 str(s_cubicBezier
                       \o <<"0", ".", "4", ",", " ", "0", ",", ".", "2", ",", "1", ")">>),
                 str(s_cubicBezier \o <<"0", ".", "4", ",", "x", ")">>) },
   offset    : { undefined, NaN, num(-50) },
   once      : { undefined, bool(FALSE) },
   mirror    : { undefined, bool(TRUE) }]

InitConfig ==
  /\ PoolInit /\ CtlAbsent /\ ClsIdle /\ OnceIdle /\ StyleIdle
  /\ cfgInput \in ConfigInputs
  /\ cfgCall = NoCfgCall

CfgApply(op, provider, result) ==
  /\ cfgCall = NoCfgCall
  /\ cfgCall' = [op |-> op, provider |-> provider, result |-> result]
  /\ UNCHANGED <<cfgInput, poolVars, ctlVars, clsVars, onceVars, styleVars>>

\* normalizeAnimationConfig(cfgInput)
Normalize ==
  CfgApply("normalizeAnimationConfig", undefined, normalizeAnimationConfig(cfgInput))

\* validateAnimationConfig(cfgInput)
Validate ==
  CfgApply("validateAnimationConfig", undefined, validateAnimationConfig(cfgInput))

\* The configuration as the provider, the component and the hook derive it

\* AnimationProvider's globalConfig for its config prop: { ...defaultConfig, ...config }
defaultConfig ==
  [type |-> str(s_fade), duration |-> num(600), delay |-> num(0),
   easing |-> str(s_ease), offset |-> num(0), once |-> bool(TRUE),
   mirror |-> bool(FALSE)]

globalConfig(providerConfig) == providerConfig @@ defaultConfig

\* useMergedAnimationConfig(localConfig) under context: undefined without a
\* provider, else [t |-> "object", v |-> the provider's config prop]
useMergedAnimationConfig(localConfig, context) ==
  IF context = undefined
    THEN normalizeAnimationConfig(localConfig)
    ELSE normalizeAnimationConfig(localConfig @@ globalConfig(context.v))

\* try { normalize; validate; return normalized } catch { return normalize({type:'fade'}) }
\* as useScrollAnimation computes normalizedConfig and AnimateOnView validatedConfig
safeConfig_noCatch(cfg) ==
  LET normalized == normalizeAnimationConfig(cfg)
  IN  IF normalized.raised THEN normalized
      ELSE IF validateAnimationConfig(normalized.value).raised
        THEN validateAnimationConfig(normalized.value)
      ELSE normalized

safeConfig(cfg) ==
  LET normalized == normalizeAnimationConfig(cfg)
  IN  IF normalized.raised \/ validateAnimationConfig(normalized.value).raised
        THEN normalizeAnimationConfig([type |-> str(s_fade)])
        ELSE normalized

\* the configuration useScrollAnimation ends with when AnimateOnView is rendered
\* with props cfg under context; a throw outside the try blocks leaves the render
animateOnViewConfig(cfg, context) ==
  LET validatedConfig == safeConfig(cfg)
      animationConfig ==
        IF validatedConfig.raised THEN validatedConfig
        ELSE useMergedAnimationConfig(validatedConfig.value, context)
  IN  IF animationConfig.raised THEN animationConfig
      ELSE safeConfig(animationConfig.value)

\* the contexts drawn: no provider, a provider without config, and providers
\* whose config sets some fields
Contexts ==
  { undefined,
    [t |-> "object", v |-> <<>>],
    [t |-> "object", v |-> [type |-> str(<<"s", "l", "i", "d", "e">>),
                            direction |-> str(<<"l", "e", "f", "t">>),
                            duration |-> num(1000), easing |-> num(5)]],
    [t |-> "object", v |-> [duration |-> num(1000)]] }

\* useScrollAnimation(cfgInput): its normalizedConfig
UseScrollAnimation ==
  CfgApply("useScrollAnimation", undefined, safeConfig(cfgInput))

\* <AnimateOnView {...cfgInput}> rendered under a context
AnimateOnView ==
  \E context \in Contexts :
    CfgApply("AnimateOnView", context, animateOnViewConfig(cfgInput, context))

\* the fields of cfg the caller specified, as a Partial<AnimationConfig> literal
specified(cfg) == [k \in {key \in DOMAIN cfg : cfg[key] # undefined} |-> cfg[k]]

\* useMergedAnimationConfig(localConfig) called from a component under a context,
\* localConfig holding the fields cfgInput specifies
UseMergedAnimationConfig ==
  \E context \in Contexts :
    CfgApply("useMergedAnimationConfig", context,
             useMergedAnimationConfig(specified(cfgInput), context))

NextConfig ==
  \/ Normalize \/ Validate \/ UseScrollAnimation \/ AnimateOnView
  \/ UseMergedAnimationConfig

SpecConfig == InitConfig /\ [][NextConfig]_vars

\* The triggerOnce API driven by intersection entries

\* deliveries to onIntersect that are recorded
MaxIntersects == 4

InitTriggerOnce ==
  /\ PoolInit /\ CtlAbsent /\ ClsIdle /\ CfgIdle /\ StyleIdle
  /\ \E once \in BOOLEAN : OnceInit(once)

\* React hook: the connected observer's callback runs on entries whose first
\* entry has isIntersecting = intersecting; hasTriggered is the value its
\* closure captured
HookEntry(intersecting) ==
  /\ IF intersecting
       THEN isInView' = TRUE /\ hasTriggered' = TRUE
       ELSE /\ isInView' = IF ~triggerOnce \/ ~inViewObserver THEN FALSE ELSE isInView
            /\ UNCHANGED hasTriggered
  /\ UNCHANGED <<triggerOnce, returnedIsInView, inViewCallback, inViewObserver,
                 actionHasTriggered, onIntersect>>
  /\ UNCHANGED <<poolVars, ctlVars, clsVars, cfgVars, styleVars>>

\* React hook: a render after a state change; it returns isInView and
\* useCallback memoizes a callback closing over the current hasTriggered
HookRender ==
  /\ returnedIsInView # isInView \/ inViewCallback # hasTriggered
  /\ returnedIsInView' = isInView
  /\ inViewCallback' = hasTriggered
  /\ UNCHANGED <<triggerOnce, isInView, hasTriggered, inViewObserver,
                 actionHasTriggered, onIntersect>>
  /\ UNCHANGED <<poolVars, ctlVars, clsVars, cfgVars, styleVars>>

\* React hook: the effect of a render whose callback changed: the old observer
\* is disconnected and a new one created with the new callback
HookEffect ==
  /\ inViewObserver # inViewCallback
  /\ inViewObserver' = inViewCallback
  /\ UNCHANGED <<triggerOnce, isInView, hasTriggered, returnedIsInView, inViewCallback,
                 actionHasTriggered, onIntersect>>
  /\ UNCHANGED <<poolVars, ctlVars, clsVars, cfgVars, styleVars>>

\* Svelte action: the observer's callback runs on such entries
ActionEntry(intersecting) ==
  /\ Len(onIntersect) < MaxIntersects
  /\ IF intersecting
       THEN actionHasTriggered' = TRUE /\ onIntersect' = Append(onIntersect, TRUE)
       ELSE /\ onIntersect' = IF ~triggerOnce \/ ~actionHasTriggered
                                 THEN Append(onIntersect, FALSE) ELSE onIntersect
            /\ UNCHANGED actionHasTriggered
  /\ UNCHANGED <<triggerOnce, isInView, hasTriggered, returnedIsInView, inViewCallback,
                 inViewObserver>>
  /\ UNCHANGED <<poolVars, ctlVars, clsVars, cfgVars, styleVars>>

NextTriggerOnce ==
  \/ \E intersecting \in BOOLEAN : HookEntry(intersecting)
  \/ HookRender
  \/ HookEffect
  \/ \E intersecting \in BOOLEAN : ActionEntry(intersecting)

SpecTriggerOnce == InitTriggerOnce /\ [][NextTriggerOnce]_vars

\* The two style computers applied to drawn arguments

AnimationTypes == {"fade", "slide", "zoom", "flip"}
Phases == {"initial", "animate"}

InitStyles ==
  /\ PoolInit /\ CtlAbsent /\ ClsIdle /\ CfgIdle /\ OnceIdle
  /\ styleArgs \in [type : AnimationTypes, direction : Directions, phase : Phases]
  /\ utilsStyles = NoStyles /\ animationsStyles = NoStyles

\* createAnimationStyles(type, direction, phase)
CreateAnimationStyles ==
  /\ utilsStyles = NoStyles
  /\ utilsStyles' = createAnimationStyles(styleArgs.type, styleArgs.direction,
                                          styleArgs.phase)
  /\ UNCHANGED <<styleArgs, animationsStyles, poolVars, ctlVars, clsVars, cfgVars,
                 onceVars>>

\* getAnimationStyles(type, direction, phase)
GetAnimationStyles ==
  /\ animationsStyles = NoStyles
  /\ animationsStyles' = getAnimationStyles(styleArgs.type, styleArgs.direction,
                                            styleArgs.phase)
  /\ UNCHANGED <<styleArgs, utilsStyles, poolVars, ctlVars, clsVars, cfgVars,
                 onceVars>>

NextStyles == CreateAnimationStyles \/ GetAnimationStyles

SpecStyles == InitStyles /\ [][NextStyles]_vars

----------------------------------------------------------------------------
\* Properties of the animation controller

\* the style reset() leaves on the element: the initial phase, no transition
InitialStyle ==
  [getAnimationStyles(normalizedConfig.type, normalizedConfig.direction, "initial")
     EXCEPT !.transition = ""]

\* the animation has completed and nothing of it is pending
SettledVisible ==
  /\ isVisible /\ ~isAnimating /\ hasAnimated
  /\ PendingTimers(CtlState) = {} /\ animateFrames = 0

\* the state reset() leaves
Idle ==
  /\ ~isVisible /\ ~isAnimating /\ ~hasAnimated
  /\ PendingTimers(CtlState) = {}

\* C1: with once = true and reset() never called, onStart is invoked at most
\* once, whatever visibility signals and manual trigger() calls occur.
C1_OnceGuard ==
  normalizedConfig.once => onStartCount <= 1

\* C2: with once = false and mirror = true, the render that follows a visibility
\* signal of false in the settled visible state leaves the element idle with the
\* initial style and no transition; and after such a reset the render that follows
\* a visibility signal of true starts entering again (one more onStart).
C2_MirrorReenters ==
  /\ [][(/\ Render
         /\ SettledVisible /\ ~isIntersecting
         /\ normalizedConfig.mirror /\ ~normalizedConfig.once)
          => (Idle' /\ style' = InitialStyle /\ onStartCount' = onStartCount)]_vars
  /\ [][(/\ Render
         /\ sinceReset /\ isIntersecting /\ isConnected
         /\ normalizedConfig.mirror /\ ~normalizedConfig.once)
          => (/\ isAnimating' /\ isVisible'
              /\ onStartCount' = onStartCount + 1
              /\ animationTimeoutRef' = "pending")]_vars

\* the first animation completed, a signal of false reset it, and a signal of
\* true started the second one
C2_Witness ==
  /\ normalizedConfig.mirror /\ ~normalizedConfig.once
  /\ onStartCount = 2 /\ onEndCount = 1
  /\ isAnimating /\ isVisible /\ isIntersecting

C4_NoCallbackAfterUnmount ==
  ~calledAfterUnmount

\* C5: from a reset() until the next trigger the element is idle: no completion
\* timer is pending, hasAnimated is false, and opacity, transform and transition
\* are those of the initial phase with an empty transition.
C5_ResetIdle ==
  sinceReset =>
    /\ PendingTimers(CtlState) = {}
    /\ ~hasAnimated
    /\ style.opacity = InitialStyle.opacity
    /\ style.transform = InitialStyle.transform
    /\ style.transition = ""

\* the controller has never started anything and the pool has never seen it
Untouched ==
  /\ ~isVisible /\ ~isAnimating /\ ~hasAnimated
  /\ animationTimeoutRef = "null" /\ orphanTimers = 0 /\ animateFrames = 0
  /\ style = UnsetStyle
  /\ onStartCount = 0 /\ onEndCount = 0
  /\ elementObservers[HookElement] = NoObserver
  /\ elementCallbacks[HookElement] = NoCallback
  /\ ioObservers = <<>> /\ observerInstances = <<>>

\* C11: when reduced motion is preferred the hook reports isVisible = true and
\* isAnimating = false at every render, and nothing (trigger(), reset(), renders)
\* changes the state, writes a style, invokes a callback or reaches the pool.
C11_ReducedMotionStatic ==
  reducedMotion =>
    /\ useScrollAnimationReturn(rendered).isVisible
    /\ ~useScrollAnimationReturn(rendered).isAnimating
    /\ Untouched

\* trigger() was just called on the hydrated component under reduced motion
C11_Witness ==
  /\ reducedMotion /\ isHydrated /\ rendered.isHydrated /\ mounted
  /\ lastCall.op = "trigger"

\* C12: on a platform without IntersectionObserver the controller behaves as in
\* the disabled mode: no watcher is created, the hook reports isVisible = true
\* and isAnimating = false, and trigger() and reset() change nothing.
C12_NoCapabilityStatic ==
  ~hasIO =>
    /\ ~poolError
    /\ useScrollAnimationReturn(rendered).isVisible
    /\ ~useScrollAnimationReturn(rendered).isAnimating
    /\ Untouched

\* C13: with disabled = true on AnimateOnView (or on its provider) the element is
\* never observed, no initial-phase or animate-phase style is written to it, and
\* onAnimationStart / onAnimationEnd are never invoked.
C13_DisabledInert ==
  disabled =>
    /\ elementObservers[HookElement] = NoObserver
    /\ style = UnsetStyle
    /\ onStartCount = 0 /\ onEndCount = 0

\* C14: with once = true the value of mirror is inert: every render's effect
\* leaves the controller exactly as it would with the other value of mirror (the
\* effect is the only reader of mirror; trigger(), reset(), the frame and timer
\* callbacks and the pool do not read it).
C14_MirrorInertWhenOnce ==
  [][(Render /\ normalizedConfig.once)
       => CtlState' = handleIntersectionChanges(
                        [CtlState EXCEPT !.rendered = Snapshot(CtlState)],
                        Snapshot(CtlState),
                        ~normalizedConfig.mirror, normalizedConfig.once)]_vars

\* once and mirror both set: a render ran with the element visible, still
\* entering and out of view, and did not reset it
C14_Witness ==
  /\ normalizedConfig.once /\ normalizedConfig.mirror
  /\ mounted /\ rendered = Snapshot(CtlState)
  /\ isVisible /\ isAnimating /\ ~isIntersecting
  /\ animationTimeoutRef = "pending"

\* a render is about to see a signal of true that arrived after an animation
\* completed: the render before it saw the signal false, and either saw the
\* completed animation too or reset it
EntryAfterCompletion ==
  /\ Render
  /\ isIntersecting /\ ~rendered.isIntersecting
  /\ rendered.hasAnimated \/ sinceReset
  /\ onEndCount >= 1 /\ ~isAnimating /\ PendingTimers(CtlState) = {}
  /\ isConnected

ManualEntering ==
  /\ mounted /\ isAnimating /\ animationTimeoutRef = "pending"
  /\ ~rendered.isAnimating /\ ~rendered.isIntersecting /\ ~isIntersecting

\* C16: a manual trigger() made while the signal is false and not blocked by a
\* guard starts entering; the render that follows, the signal still being false,
\* leaves the animation and its completion timer in place; and the timer's firing
\* settles the element (isAnimating false, hasAnimated true, onEnd invoked).
C16_ManualOverride ==
  /\ [][(/\ Trigger /\ ~isIntersecting
         /\ mounted /\ isConnected /\ ~motionDisabled(rendered)
         /\ ~rendered.isAnimating
         /\ ~(rendered.hasAnimated /\ normalizedConfig.once))
          => (/\ isAnimating' /\ isVisible'
              /\ onStartCount' = onStartCount + 1
              /\ animationTimeoutRef' = "pending")]_vars
  /\ [][(ManualEntering /\ Render)
          => (isAnimating' /\ isVisible' /\ animationTimeoutRef' = "pending")]_vars
  /\ [][(ManualEntering /\ CompletionTimer /\ orphanTimers = 0)
          => (/\ ~isAnimating' /\ hasAnimated' /\ isVisible'
              /\ onEndCount' = onEndCount + 1)]_vars

\* C17: the animate-phase style is written only after the initial-phase style
\* (a frame callback runs only once trigger has written the initial style), and
\* onEnd runs only after the animate-phase style was written (no frame callback
\* is still pending when a completion timer fires).
C17_StyleBeforeCompletion ==
  /\ [][animateFrames' < animateFrames
          => (onStartCount >= 1 /\ style # UnsetStyle)]_vars
  /\ [][onEndCount' > onEndCount => animateFrames = 0]_vars

\* C18: while an element is entering (its completion timer pending) no render
\* resets it or cancels the timer, whatever visibility signal the render sees:
\* the animation, the timer and the style are left as they are.
C18_NoResetWhileEntering ==
  [][(/\ Render
      /\ isAnimating /\ isVisible /\ animationTimeoutRef = "pending")
       => (/\ isAnimating' /\ isVisible'
           /\ animationTimeoutRef' = "pending"
           /\ style' = style
           /\ onStartCount' = onStartCount)]_vars

\* C19: every entering that is started sets one completion timer of exactly
\* duration + delay (ms) of the canonical config; while the component stays
\* mounted, a firing completion timer ends an entering in progress, leaving
\* isAnimating false and hasAnimated true and invoking onEnd once, so that onEnd
\* is never invoked for an entering that has already been completed.
C19_OneCompletionPerEntering ==
  /\ [][onStartCount' > onStartCount =>
          /\ animationTimeoutRef' = "pending"
          /\ timeoutDelay' = normalizedConfig.duration + normalizedConfig.delay]_vars
  /\ [][(onEndCount' > onEndCount /\ mounted) =>
          /\ isAnimating
          /\ ~isAnimating' /\ hasAnimated'
          /\ onEndCount' = onEndCount + 1]_vars

\* C20: a completion timer that fires while the element is disconnected from the
\* document writes no style to it, does not invoke onEnd and raises no error.
C20_CompletionSkipsDetached ==
  [][(CompletionTimer /\ ~isConnected) =>
       /\ style' = style
       /\ onEndCount' = onEndCount
       /\ ~poolError']_vars

\* the configuration object without any value: {}
EmptyConfig == [key \in ConfigKeys |-> undefined]

\* C21: normalize never raises, whatever partial configuration it is given; it
\* returns a configuration whose type, duration, delay, easing, offset, once and
\* mirror are all filled, and for {} it returns exactly fade, 600, 0, ease, 0,
\* once true, mirror false.
C21_NormalizeTotal ==
  cfgCall.op = "normalizeAnimationConfig" =>
    /\ ~cfgCall.result.raised
    /\ \A key \in ConfigKeys \ {"direction"} : cfgCall.result.value[key] # undefined
    /\ cfgInput = EmptyConfig =>
         cfgCall.result.value =
           [type |-> str(s_fade), direction |-> undefined, duration |-> num(600),
            delay |-> num(0), easing |-> str(s_ease), offset |-> num(0),
            once |-> bool(TRUE), mirror |-> bool(FALSE)]

\* C22: normalize clamps a numeric duration to [100, 3000] and a numeric delay to
\* [0, 2000]: a value below the range yields the lower bound, a value above it
\* the upper bound, and a value within it is returned unchanged.
C22_ClampsToNearestBound ==
  (cfgCall.op = "normalizeAnimationConfig" /\ ~cfgCall.result.raised) =>
    /\ cfgInput.duration.t = "number" =>
         cfgCall.result.value.duration =
           IF cfgInput.duration.v < 100 THEN num(100)
           ELSE IF cfgInput.duration.v > 3000 THEN num(3000)
           ELSE cfgInput.duration
    /\ cfgInput.delay.t = "number" =>
         cfgCall.result.value.delay =
           IF cfgInput.delay.v < 0 THEN num(0)
           ELSE IF cfgInput.delay.v > 2000 THEN num(2000)
           ELSE cfgInput.delay

\* the first constraint, in the order type, direction, duration, delay, offset,
\* easing, that a configuration violates ("none" if it violates none); a
\* direction is constrained only for the families that use one
FirstViolated(cfg) ==
  IF ~(cfg.type.t = "string" /\ cfg.type.v \in validTypes) THEN "type"
  ELSE IF /\ cfg.direction # undefined /\ cfg.type.v # s_fade
          /\ ~(cfg.direction.t = "string" /\ cfg.direction.v \in validDirections)
    THEN "direction"
  ELSE IF /\ cfg.duration # undefined
          /\ ~(cfg.duration.t = "number" /\ cfg.duration.v \in 100..3000)
    THEN "duration"
  ELSE IF /\ cfg.delay # undefined
          /\ ~(cfg.delay.t = "number" /\ cfg.delay.v \in 0..2000)
    THEN "delay"
  ELSE IF cfg.offset # undefined /\ cfg.offset.t # "number" THEN "offset"
  ELSE IF /\ cfg.easing # undefined
          /\ ~(cfg.easing.t = "string" /\ validateEasing(cfg.easing).value)
    THEN "easing"
  ELSE "none"

\* the error that identifies each constraint
ConstraintError ==
  [type      |-> AnimationError("Invalid animation type", "UNSUPPORTED_ANIMATION"),
   direction |-> AnimationError("Invalid animation direction", "INVALID_CONFIG"),
   duration  |-> AnimationError("Duration must be between 100-3000ms", "INVALID_DURATION"),
   delay     |-> AnimationError("Delay must be between 0-2000ms", "INVALID_DELAY"),
   offset    |-> AnimationError("Invalid offset value", "INVALID_OFFSET"),
   easing    |-> AnimationError("Invalid easing function", "INVALID_CONFIG")]

\* C23: validate raises the error of the first constraint the configuration
\* violates, in the order type, direction, duration, delay, offset, easing, and
\* raises nothing when it violates none.
C23_FirstViolationRaised ==
  cfgCall.op = "validateAnimationConfig" =>
    cfgCall.result = IF FirstViolated(cfgInput) = "none"
                       THEN returned(undefined)
                       ELSE ConstraintError[FirstViolated(cfgInput)]

\* a canonical configuration: every field within its domain
Canonical(cfg) ==
  /\ DOMAIN cfg = ConfigKeys
  /\ cfg.type.t = "string" /\ cfg.type.v \in validTypes
  /\ \/ cfg.direction = undefined
     \/ cfg.direction.t = "string" /\ cfg.direction.v \in validDirections
  /\ cfg.duration.t = "number" /\ cfg.duration.v \in 100..3000
  /\ cfg.delay.t = "number" /\ cfg.delay.v \in 0..2000
  /\ cfg.easing.t = "string" /\ validateEasing(cfg.easing).value
  /\ cfg.offset.t = "number"
  /\ cfg.once.t = "boolean" /\ cfg.mirror.t = "boolean"

\* normalization or validation raises for the configuration passed
ConfigRaises(cfg) ==
  \/ normalizeAnimationConfig(cfg).raised
  \/ validateAnimationConfig(normalizeAnimationConfig(cfg).value).raised

ExpectedMargin(options) ==
  IF options.rootMargin # "" THEN options.rootMargin
  ELSE IF options.offset = 0 THEN "0px"
  ELSE ToString(options.offset) \o "px " \o ToString(options.offset) \o "px "
         \o ToString(options.offset) \o "px " \o ToString(options.offset) \o "px"

\* C25: an observe() call registers the element with a watcher whose pooling key
\* and whose rootMargin carry the explicit rootMargin of the options if there is
\* one, and otherwise the symmetric margin of their offset, negative offsets
\* included.
C25_EffectiveMargin ==
  [][\A element \in Elements, callback \in Callbacks, options \in MarginOptions :
       ObserveCall(element, callback, options) =>
         LET io == ioObservers'[elementObservers'[element]]
         IN  /\ io.rootMargin = ExpectedMargin(options)
             /\ io.key = "viewport-" \o ExpectedMargin(options) \o "-"
                           \o ToString(options.threshold)]_vars

\* C26: for the zoom family the initial-phase style written when entering starts
\* has opacity 0 and a scale of 1.2 for direction down and of 0.8 for up, left
\* and right; the animate-phase style written by the animation frame has
\* opacity 1 and a scale of 1.
C26_ZoomScales ==
  /\ [][onStartCount' > onStartCount =>
          /\ style'.opacity = "0"
          /\ style'.transform =
               IF normalizedConfig.direction = "down"
                 THEN "scale3d(1.2, 1.2, 1) translateZ(0)"
                 ELSE "scale3d(0.8, 0.8, 1) translateZ(0)"]_vars
  /\ [][AnimateFrame =>
          /\ style'.opacity = "1"
          /\ style'.transform = "scale3d(1, 1, 1) translateZ(0)"]_vars

C26_Witness ==
  /\ normalizedConfig.type = "zoom" /\ normalizedConfig.direction = "down"
  /\ onStartCount = 1 /\ animateFrames = 0 /\ isAnimating
  /\ style.transform = "scale3d(1, 1, 1) translateZ(0)"

\* C27: a mounted element whose animation has completed (visible, not animating)
\* carries no transition; a transition is attached only by the animation frame
\* of an entering in progress, and never by the initial-phase style written when
\* entering starts.
C27_NoTransitionWhenSettled ==
  /\ []((mounted /\ isVisible /\ ~isAnimating /\ hasAnimated) => style.transition = "")
  /\ [][(style'.transition # style.transition /\ style'.transition # "")
          => (AnimateFrame /\ isAnimating)]_vars
  /\ [][onStartCount' > onStartCount => style'.transition = style.transition]_vars

\* the configuration the merge is claimed to produce: field by field the local
\* value where the caller specified the field, else the provider's global value
MergedByField(local, context) ==
  LET global == globalConfig(context.v)
      keys   == {key \in ConfigKeys : local[key] # undefined \/ key \in DOMAIN global}
  IN  [key \in keys |-> IF local[key] # undefined THEN local[key] ELSE global[key]]

\* C28: under a provider, every field of the merged configuration is the local
\* value when the caller specified the field and the provider's global value
\* otherwise, both for useMergedAnimationConfig called directly and for the
\* configuration an AnimateOnView animates with.
C28_MergeLocalOverGlobal ==
  (/\ cfgCall.op \in {"useMergedAnimationConfig", "AnimateOnView"}
   /\ cfgCall.provider # undefined
   /\ ~ConfigRaises(MergedByField(cfgInput, cfgCall.provider)))
    => cfgCall.result =
         normalizeAnimationConfig(MergedByField(cfgInput, cfgCall.provider))

\* C29: under a provider with respectMotionPreferences = false and disabled =
\* false the reduced-motion preference is ignored: once hydrated the component is
\* not disabled, its element is observed (until a once-configuration has seen it
\* enter), and a render that sees the element in the viewport starts entering,
\* whether or not reduced motion is preferred.
C29_MotionPreferenceIgnored ==
  /\ []((~respectMotionPreferences /\ ~disabled /\ rendered.isHydrated)
          => ~isDisabled(rendered))
  /\ []((/\ ~respectMotionPreferences /\ ~disabled /\ hasIO
         /\ mounted /\ rendered.isHydrated
         /\ ~(normalizedConfig.once /\ isIntersecting))
          => elementObservers[HookElement] # NoObserver)
  /\ [][(/\ ~respectMotionPreferences /\ ~disabled /\ hasIO
         /\ Render /\ isHydrated /\ isIntersecting /\ isConnected
         /\ ~isVisible /\ ~isAnimating /\ ~hasAnimated)
          => (isAnimating' /\ onStartCount' = onStartCount + 1)]_vars

\* C30: with triggerOnce = true, once the React hook has returned isInView = true
\* it never returns false again, and once the Svelte action has delivered
\* onIntersect(true) it never delivers onIntersect(false), whatever entries
\* arrive and however they interleave with renders and effects.
C30_OnceInViewStaysInView ==
  /\ [][(triggerOnce /\ returnedIsInView) => returnedIsInView']_vars
  /\ [](triggerOnce =>
          \A i, j \in 1..Len(onIntersect) :
            (i < j /\ onIntersect[i]) => onIntersect[j])

\* C31: after observe(element, callback, options) the watcher the element is
\* registered on has the root, the effective margin and the threshold of
\* options, so that two observations share a watcher only if they agree on all
\* three, and each element is watched against the root it was registered with.
C31_SharedOnlyIfSameParameters ==
  [][\A element \in Elements, callback \in Callbacks, options \in WatchOptions :
       ObserveCall(element, callback, options) =>
         LET observer == ioObservers'[elementObservers'[element]]
         IN  /\ observer.root = options.root
             /\ observer.rootMargin = effectiveRootMargin(options)
             /\ observer.threshold = options.threshold]_vars

\* C32: the pool retains no watcher without members: every observer stored in
\* observerInstances has at least one observed element, so that an unobserve that
\* removes an observer's last element removes its entry, and a later observe
\* with that key constructs a new observer.
C32_NoEmptyWatcherRetained ==
  /\ [](\A key \in DOMAIN observerInstances :
          ioObservers[observerInstances[key]].observed # {})
  /\ [][\A element \in Elements, callback \in Callbacks, options \in WatchOptions :
          (/\ ObserveCall(element, callback, options)
           /\ \A o \in DOMAIN ioObservers :
                ioObservers[o].key = createObserverKey(options)
                  => ioObservers[o].observed \subseteq {element})
            => elementObservers'[element] \notin DOMAIN ioObservers]_vars

\* C33: with once, from the measurement that turns isIntersecting true onwards
\* the hook's element is registered on no observer and is a target of none,
\* also after the render that the state change causes.
C33_OnceStaysUnobserved ==
  (normalizedConfig.once /\ mounted /\ isIntersecting) =>
    /\ elementObservers[HookElement] = NoObserver
    /\ \A o \in DOMAIN ioObservers : HookElement \notin ioObservers[o].observed

\* C34: validateAnimationConfig applied to a configuration of the fade family
\* never raises the direction error, whatever the direction field holds.
C34_FadeDirectionNeverError ==
  (cfgCall.op = "validateAnimationConfig" /\ cfgInput.type = str(s_fade))
    => cfgCall.result # ConstraintError.direction

\* C35: a step that invokes callbacks (the processing of a deferred batch)
\* invokes them only for elements that are registered when it starts: once
\* unobserve(el) has returned, and until el is observed again, no callback is
\* invoked for el, also not for a batch delivered before the unobserve call.
C35_NoCallbackAfterUnobserve ==
  [][\A i \in DOMAIN invoked' : \A inv \in invoked'[i] :
       elementObservers[inv.element] # NoObserver]_vars

\* a batch was processed that held an entry for an element unobserved after its
\* delivery: no callback was invoked for that entry
C35_Witness ==
  \E i \in DOMAIN invoked : invoked[i] = {}

\* C36: the processing of a deferred batch forwards an entry to the callback of
\* its target only if the entry was measured by the observer the target is
\* registered on: an entry measured by the observer of a previous registration
\* is not forwarded to the callback of the new one.
C36_OnlyOwnWatcherMeasurements ==
  [][ProcessFrame =>
       \A i \in DOMAIN invoked' :
         invoked'[i] # {} =>
           Head(rafQueue)[i].observer = elementObservers[Head(rafQueue)[i].target]]_vars

\* the completion timers that are pending: the one whose handle the ref holds
\* and those whose handle it has lost
PendingTimerCount ==
  (IF animationTimeoutRef = "pending" THEN 1 ELSE 0) + orphanTimers

\* C37: at most one completion timer is pending at any moment, also when
\* trigger() is called again before a re-render, and none is pending after
\* reset() or the unmount.
C37_OnePendingTimer ==
  /\ [](PendingTimerCount <= 1)
  /\ [][(Reset \/ Unmount) => PendingTimerCount' = 0]_vars

\* the hysteresis classifier folded over the ratios of a batch, from wasVisible
RECURSIVE FoldClassifier(_, _, _)
FoldClassifier(ratios, i, wasVisible) ==
  IF i > Len(ratios) THEN wasVisible
  ELSE FoldClassifier(ratios, i + 1,
                      shouldTriggerWithThreshold(ratios[i], HookThreshold, wasVisible))

\* C38: when a batch of measurements for the hook's element is processed by its
\* registered callback (once not set), the visibility signal afterwards is the
\* hysteresis classifier folded over the batch starting from the signal before,
\* which is false initially; so after a last measurement with ratio <=
\* threshold/2 the signal is false. This also holds for batches processed
\* before the component has re-rendered.
C38_SignalIsClassifierFold ==
  [][(/\ rafQueue # <<>> /\ mounted /\ ~normalizedConfig.once
      /\ elementCallbacks[HookElement] \in HookCallbacks)
       => \A ratios \in RatiosOf(Head(rafQueue)) :
            ProcessFrameWith(ratios) =>
              /\ isIntersecting' = FoldClassifier(ratios, 1, isIntersecting)
              /\ 2 * ratios[Len(ratios)] <= HookThreshold => ~isIntersecting']_vars

\* C39: disconnect() leaves no element registered in the pool, and the
\* processing of a deferred batch invokes no callback for an entry measured by
\* an observer that has been disconnected since.
C39_DisconnectSilencesAll ==
  /\ [][Disconnect =>
          \A e \in Elements :
            elementObservers'[e] = NoObserver /\ elementCallbacks'[e] = NoCallback]_vars
  /\ [][ProcessFrame =>
          \A i \in DOMAIN invoked' :
            invoked'[i] # {} => ioObservers[Head(rafQueue)[i].observer].connected]_vars

\* C40: for every animation type, direction and phase, createAnimationStyles
\* (utils) and getAnimationStyles (animations) return the same opacity and the
\* same transform.
C40_StyleComputersAgree ==
  (utilsStyles # NoStyles /\ animationsStyles # NoStyles) =>
    /\ utilsStyles.opacity = animationsStyles.opacity
    /\ utilsStyles.transform = animationsStyles.transform

----------------------------------------------------------------------------
\* Properties of the observer pool (SpecPool)

LiveObservers == { o \in DOMAIN ioObservers : ioObservers[o].connected }

\* the observers under which the platform currently watches an element
WatchersOf(element) == { o \in DOMAIN ioObservers : element \in ioObservers[o].observed }

\* C6: observations whose options yield the same key share one observer: no two
\* connected observers have the same key, an element registered on a connected
\* observer is a target of it, and that observer is the one pooled under its key.
C6_OneWatcherPerKey ==
  /\ \A o1, o2 \in LiveObservers :
       ioObservers[o1].key = ioObservers[o2].key => o1 = o2
  /\ \A e \in Elements :
       elementObservers[e] \in LiveObservers =>
         /\ e \in ioObservers[elementObservers[e]].observed
         /\ ioObservers[elementObservers[e]].key \in DOMAIN observerInstances
         /\ observerInstances[ioObservers[elementObservers[e]].key] = elementObservers[e]

\* two elements, observed with different options of one key, on one observer
C6_Witness ==
  /\ elementObservers["e1"] # NoObserver
  /\ elementObservers["e1"] = elementObservers["e2"]
  /\ ioObservers[elementObservers["e1"]].observed = {"e1", "e2"}
  /\ Cardinality(LiveObservers) = 1

\* C7: every callback the processing of a batch invokes is the callback stored for
\* the target of the entry it is handed, found under that target and no other
\* element; no entry reaches a callback registered for another element.
C7_Demultiplexed ==
  \A i \in DOMAIN invoked : \A inv \in invoked[i] :
    /\ inv.element = inv.target
    /\ inv.callback = elementCallbacks[inv.target]

\* one batch with entries for both elements, each forwarded to its own callback
C7_Witness ==
  /\ Len(invoked) = 2
  /\ \E a \in invoked[1], b \in invoked[2] :
       a.target # b.target /\ a.callback # b.callback

\* C8: an element is a target of at most one observer, the one it is registered
\* on, so a re-observed element is no longer watched by its previous observer; and
\* the processing of a batch invokes at most one callback per entry.
C8_SingleRegistration ==
  /\ \A e \in Elements : \A o \in WatchersOf(e) :
       /\ elementObservers[e] = o
       /\ elementCallbacks[e] # NoCallback
  /\ \A i \in DOMAIN invoked : Cardinality(invoked[i]) <= 1

\* an element was just re-observed under the options of another observer
C8_Witness ==
  /\ lastCall.op = "observe"
  /\ lastCall.prior # elementObservers[lastCall.element]
  /\ ioObservers[lastCall.prior].connected
  /\ WatchersOf(lastCall.element) = {elementObservers[lastCall.element]}

\* C9: unobserve raises no error, leaves the element unregistered, and changes
\* nothing in the pool when the element is not registered (never observed, or
\* already unobserved).
C9_UnobserveIdempotent ==
  [][\A e \in Elements :
       UnobserveCall(e) =>
         /\ ~poolError'
         /\ elementObservers'[e] = NoObserver
         /\ elementCallbacks'[e] = NoCallback
         /\ elementObservers[e] = NoObserver =>
              UNCHANGED <<observerInstances, elementCallbacks, elementObservers,
                          ioObservers, poolError>>]_vars

\* unobserve was just called for an unregistered element, with others registered
C9_Witness ==
  /\ lastCall.op = "unobserve"
  /\ elementObservers[lastCall.element] = NoObserver
  /\ \E e \in Elements : elementObservers[e] # NoObserver
  /\ ~poolError

----------------------------------------------------------------------------
\* Properties of the visibility classifier (SpecClassifier)

\* C10: shouldTriggerWithThreshold is true exactly when the element was not
\* visible and ratio > threshold, or was visible and ratio > threshold/2; with
\* threshold 0.3: (0.35, not visible) and (0.2, visible) are true, (0.1, visible)
\* is false.
C10_Hysteresis ==
  /\ clsResult # "unset" =>
       ((clsResult = "true") <=>
          \/ ~clsWasVisible /\ clsRatio > clsThreshold
          \/ clsWasVisible /\ 2 * clsRatio > clsThreshold)
  /\ shouldTriggerWithThreshold(7, 6, FALSE)
  /\ shouldTriggerWithThreshold(4, 6, TRUE)
  /\ ~shouldTriggerWithThreshold(2, 6, TRUE)

\* a visible element at ratio 0.25, between threshold/2 and threshold 0.3, stays
\* visible
C10_Witness ==
  clsResult = "true" /\ clsWasVisible /\ clsThreshold = 6 /\ clsRatio = 5

====
